---- MODULE Spec2Model ----
(***************************************************************************)
(* A model of the ZooInfo chat bot (src/main.py): the per-user search      *)
(* mode kept in context.user_data, the three update handlers (start,       *)
(* button, handle_message) cut at their awaits, and the two Wikipedia      *)
(* resolvers (get_animal_info, get_habitat_info).                          *)
(*                                                                         *)
(* Strings are sequences of one-character strings, so that str.endswith,   *)
(* str.strip and str.title are computed and not assumed.  The Wikipedia    *)
(* library is the environment: what a page lookup or a search yields is    *)
(* chosen nondeterministically, including a WikipediaException raised at   *)
(* any of the library calls.  The chat transport (reply_text,              *)
(* reply_media_group, answer, edit_message_text) is taken to deliver.      *)
(***************************************************************************)
EXTENDS Integers, Sequences, FiniteSets, TLC

\* ------------------------------------------------------------- bounds
MaxImages == 3          \* longest image list of a page looked up by name
MaxHabitatImages == 2   \* longest image list of the page of a search hit
MaxHits == 2            \* longest list of search hits
MaxLen == 3             \* longest free-text message

\* ---------------------------------------------------- program constants
ImageLimit == 2     \* page.images[:2]
SearchResults == 10 \* wiki_wiki.search(habitat, results=10)

\* The users of the bot: context.user_data is one dictionary per user.
Sessions == {"u1", "u2"}

\* Python's None.
None == [none |-> TRUE]

Min(a, b) == IF a <= b THEN a ELSE b

\* All sequences over S of length at most n.
SeqUpTo(S, n) == UNION {[1..k -> S] : k \in 0..n}

\* --------------------------------------------------------------- strings
\* A string is the tuple of its characters.

\* str.endswith(suffix)
EndsWith(s, suffix) ==
    /\ Len(suffix) <= Len(s)
    /\ SubSeq(s, Len(s) - Len(suffix) + 1, Len(s)) = suffix

StartsWith(s, prefix) ==
    /\ Len(prefix) <= Len(s)
    /\ SubSeq(s, 1, Len(prefix)) = prefix

\* The tuple ('jpg', 'jpeg', 'png') of lines 33 and 61.
Extensions == {<<"j", "p", "g">>, <<"j", "p", "e", "g">>, <<"p", "n", "g">>}

\* image.endswith(('jpg', 'jpeg', 'png'))
HasAllowedExtension(image) == \E e \in Extensions : EndsWith(image, e)

Https == <<"h", "t", "t", "p", "s", ":">>

\* page.images[:2]
FirstImages(images) == SubSeq(images, 1, Min(ImageLimit, Len(images)))

\* A variant that filters the whole image list and cuts it afterwards.
FormatImages_cut_last(pageImages) ==
    LET kept == SelectSeq(pageImages, HasAllowedExtension)
        images == FirstImages(kept)
    IN [i \in 1..Len(images) |-> Https \o images[i]]

\* [f"https:{image}" for image in images if image.endswith(...)] with
\* images = page.images[:2]
FormatImages(pageImages) ==
    LET images == FirstImages(pageImages)
        kept == SelectSeq(images, HasAllowedExtension)
    IN [i \in 1..Len(kept) |-> Https \o kept[i]]

\* ------------------------------------------------- query normalisation
\* The characters of the model.  "j_caron" is U+01F0, whose titlecase is
\* the two code points "J" U+030C; "caron" is U+030C, which is not cased.
InputChars == {" ", "a", "A", "-", "j_caron"}

IsSpace(c) == c = " "

\* _PyUnicode_IsCased
IsCased(c) == c \in {"a", "A", "j", "J", "j_caron"}

\* _PyUnicode_ToTitleFull
ToTitleFull(c) ==
    CASE c = "a" -> <<"A">>
      [] c = "j" -> <<"J">>
      [] c = "j_caron" -> <<"J", "caron">>
      [] OTHER -> <<c>>

\* lower_ucs4
ToLowerFull(c) ==
    CASE c = "A" -> <<"a">>
      [] c = "J" -> <<"j">>
      [] OTHER -> <<c>>

RECURSIVE LStrip(_)
LStrip(s) == IF s # <<>> /\ IsSpace(Head(s)) THEN LStrip(Tail(s)) ELSE s

RECURSIVE RStrip(_)
RStrip(s) ==
    IF s # <<>> /\ IsSpace(s[Len(s)]) THEN RStrip(SubSeq(s, 1, Len(s) - 1)) ELSE s

\* str.strip()
Strip(s) == RStrip(LStrip(s))

\* str.title(): a character that follows a cased character is lowercased,
\* any other character is titlecased.
RECURSIVE TitleFrom(_, _)
TitleFrom(s, previous_is_cased) ==
    IF s = <<>> THEN <<>>
    ELSE LET c == Head(s)
             mapped == IF previous_is_cased THEN ToLowerFull(c) ELSE ToTitleFull(c)
         IN mapped \o TitleFrom(Tail(s), IsCased(c))

Title(s) == TitleFrom(s, FALSE)

\* update.message.text.strip().title()
Normalize(text) == Title(Strip(text))

\* ------------------------------------------------------------ Wikipedia
\* What the library yields for one page: the call of lines 24-34 (52-60)
\* that raises WikipediaException, if any, whether the page exists, and
\* its title, summary (a tuple of paragraphs) and image references.
Titles == {"Lion", "Cat"}

RefJpg == <<"/", "a", ".", "j", "p", "g">>
RefJpeg == <<"/", "b", ".", "j", "p", "e", "g">>
RefPng == <<"/", "c", ".", "p", "n", "g">>
RefGif == <<"/", "d", ".", "g", "i", "f">>
ImageRefs == {RefJpg, RefJpeg, RefPng, RefGif}

Summaries == {<<"p1">>, <<"p1", "p2">>}

FailPoints == {"page", "exists", "summary", "images"}

Page(fail, exists, title, summary, images) ==
    [fail |-> fail, exists |-> exists, title |-> title,
     summary |-> summary, images |-> images]

\* Pages whose lookup ends without a result.
LostPages(title) ==
    {Page(f, TRUE, title, <<"p1">>, <<>>) : f \in FailPoints}
        \cup {Page("none", FALSE, title, <<"p1">>, <<>>)}

GoodPages(title, summaries, imageLists) ==
    {Page("none", TRUE, title, s, i) : s \in summaries, i \in imageLists}

\* page.fullurl
FullUrl(page) == <<"url", page.title>>

\* page.summary.split('\n')[0]
FirstParagraph(page) == Head(page.summary)

Raise == [raised |-> TRUE, value |-> None]
Return(v) == [raised |-> FALSE, value |-> v]

\* Lines 24-36, the body of the try block of get_animal_info.
AnimalLookup(animal_name, page) ==
    IF page.fail \in {"page", "exists"} THEN Raise
    ELSE IF ~page.exists THEN Return(None)
    ELSE IF page.fail \in {"summary", "images"} THEN Raise
    ELSE Return([summary |-> FirstParagraph(page),
                 url |-> FullUrl(page),
                 images |-> FormatImages(page.images),
                 title |-> page.title])

\* get_animal_info: the except clause of lines 37-39 turns the exception
\* into None.
get_animal_info(animal_name, page) ==
    LET r == AnimalLookup(animal_name, page)
    IN IF r.raised THEN Return(None) ELSE r

\* Lines 52-62, the body of the try block of the loop of get_habitat_info
\* for one search result; value None stands for the "continue" of line 54.
HitLookup(result, page) ==
    IF page.fail \in {"page", "exists"} THEN Raise
    ELSE IF ~page.exists THEN Return(None)
    ELSE IF page.fail \in {"summary", "images"} THEN Raise
    ELSE Return([title |-> result,
                 summary |-> FirstParagraph(page),
                 url |-> FullUrl(page),
                 images |-> FormatImages(page.images)])

\* The for loop of lines 50-65 from the i-th search result on.
RECURSIVE HabitatLoop(_, _, _, _)
HabitatLoop(search_results, pages, i, animals) ==
    IF i > Len(search_results) THEN animals
    ELSE LET r == HitLookup(search_results[i], pages[i])
         IN HabitatLoop(search_results, pages, i + 1,
                        IF r.raised \/ r.value = None
                        THEN animals
                        ELSE Append(animals, r.value))

\* A variant whose try block is around the whole loop: the first exception
\* ends the loop.
RECURSIVE HabitatLoopAbort(_, _, _, _)
HabitatLoopAbort(search_results, pages, i, animals) ==
    IF i > Len(search_results) THEN animals
    ELSE LET r == HitLookup(search_results[i], pages[i])
         IN IF r.raised THEN animals
            ELSE HabitatLoopAbort(search_results, pages, i + 1,
                                  IF r.value = None
                                  THEN animals
                                  ELSE Append(animals, r.value))

get_habitat_info_abort(habitat, search, pages) ==
    IF search.fail THEN Raise
    ELSE Return(HabitatLoopAbort(search.hits, pages, 1, <<>>))

\* get_habitat_info: the search of line 48 is outside every try block.
\* search is what wiki_wiki.search yields: [fail, hits]; pages[i] is what
\* the library yields for the i-th hit.
get_habitat_info(habitat, search, pages) ==
    IF search.fail THEN Raise
    ELSE Return(HabitatLoop(search.hits, pages, 1, <<>>))

\* ------------------------------------------------------------ the state
VARIABLES
    search_type,  \* context.user_data['search_type'] of each user, or "unset"
    pc,           \* where the handler of each user's current update stands
    event,        \* the update each user's handler is (or was last) handling
    branch,       \* the branch handle_message took for that update
    result,       \* what the resolver returned to handle_message
    idx,          \* the position of the loop of lines 135-139
    sent,         \* the messages the handler has sent for that update
    calls,        \* the resolver calls the handler has made for that update
    raised,       \* whether the handler ended by an exception
    pressed,      \* the data of the user's last recognised button press
    running,      \* the user whose handler took the last step
    fin,          \* the input of a resolver or normalisation call
    fout,         \* its outcome
    fpc           \* "call" before the call, "done" after it

botvars == <<search_type, pc, event, branch, result, idx, sent, calls,
             raised, pressed, running>>
funvars == <<fin, fout, fpc>>
vars == <<botvars, funvars>>

NoEvent == [kind |-> "none", data |-> "none", text |-> <<>>]

BotInit ==
    /\ search_type = [s \in Sessions |-> "unset"]
    /\ pc = [s \in Sessions |-> "idle"]
    /\ event = [s \in Sessions |-> NoEvent]
    /\ branch = [s \in Sessions |-> "none"]
    /\ result = [s \in Sessions |-> <<>>]
    /\ idx = [s \in Sessions |-> 0]
    /\ sent = [s \in Sessions |-> <<>>]
    /\ calls = [s \in Sessions |-> <<>>]
    /\ raised = [s \in Sessions |-> FALSE]
    /\ pressed = [s \in Sessions |-> "none"]
    /\ running = "none"

NoCall == [kind |-> "none"]

FunIdle ==
    /\ fin = NoCall
    /\ fout = Return(None)
    /\ fpc = "idle"

\* ------------------------------------------------------------- the bot
\* callback_data of the three buttons of lines 77-80, and one value that
\* is none of them.
KnownData == {"search_animal", "search_breed", "search_habitat"}
CallbackData == KnownData \cup {"search_other"}

\* Free-text messages.
Texts == {<<" ", "a", "-", "a">>}

\* context.user_data.get('search_type')
GetSearchType(user_data, s) == user_data[s]

\* A variant that keeps the search type in one variable of the module
\* instead of in the user's dictionary.
SetSearchType_global(user_data, s, mode) == [u \in Sessions |-> mode]

\* context.user_data['search_type'] = mode
SetSearchType(user_data, s, mode) == [user_data EXCEPT ![s] = mode]

\* A variant whose second branch was copied from the first and not edited.
ButtonMode_pasted(data, old) ==
    CASE data = "search_animal" -> "animal"
      [] data = "search_breed" -> "animal"
      [] data = "search_habitat" -> "habitat"
      [] OTHER -> old

\* A variant that derives the search type from the callback data.
ButtonMode_suffix(data, old) ==
    CASE data = "search_animal" -> "animal"
      [] data = "search_breed" -> "breed"
      [] data = "search_habitat" -> "habitat"
      [] OTHER -> "other"

\* The if/elif chain of lines 100-108: the search type after a press of
\* the button with this data, old being the search type before it.
ButtonMode(data, old) ==
    CASE data = "search_animal" -> "animal"
      [] data = "search_breed" -> "breed"
      [] data = "search_habitat" -> "habitat"
      [] OTHER -> old

\* A variant that takes a missing search type for 'animal'.
MessageBranch_default(mode) ==
    IF mode \in {"animal", "breed", "unset"} THEN "animal"
    ELSE IF mode = "habitat" THEN "habitat"
    ELSE "none"

\* The conditions of lines 119 and 131.
MessageBranch(mode) ==
    IF mode \in {"animal", "breed"} THEN "animal"
    ELSE IF mode = "habitat" THEN "habitat"
    ELSE "none"

\* A variant that clears the search type once a message has used it.
AfterMessage_clear(user_data, s) == [user_data EXCEPT ![s] = "unset"]

\* handle_message never assigns user_data.
AfterMessage(user_data, s) == user_data

Photos(images) == [kind |-> "photos", what |-> "media", about |-> images]
TextMsg(what, about) == [kind |-> "text", what |-> what, about |-> about]

\* A variant that sends the text first and the photos after it.
AnimalReplies_text_first(info) ==
    IF info.images # <<>>
    THEN <<TextMsg("result", <<info.title, info.summary, info.url>>), Photos(info.images)>>
    ELSE <<TextMsg("result", <<info.title, info.summary, info.url>>)>>

\* Lines 122-126: the messages sent for a result, in the order of their
\* awaits.
AnimalReplies(info) ==
    IF info.images # <<>>
    THEN <<Photos(info.images), TextMsg("result", <<info.title, info.summary, info.url>>)>>
    ELSE <<TextMsg("result", <<info.title, info.summary, info.url>>)>>

\* Lines 128-129.
AnimalApology == TextMsg("apology", <<>>)

\* Lines 134-140: the photo batches of the animals that have images, in
\* the order of the list, then the one text.
RECURSIVE HabitatBatches(_)
HabitatBatches(animals) ==
    IF animals = <<>> THEN <<>>
    ELSE (IF Head(animals).images # <<>> THEN <<Photos(Head(animals).images)>> ELSE <<>>)
            \o HabitatBatches(Tail(animals))

HabitatReplies(user_input, animals) ==
    HabitatBatches(animals)
        \o <<TextMsg("habitat", <<user_input>> \o [i \in 1..Len(animals) |-> animals[i].title])>>

\* Lines 142-143.
HabitatApology(user_input) == TextMsg("habitat_apology", <<user_input>>)

\* What the library yields to the bot.
BotImageLists ==
    {<<>>, <<RefJpg>>, <<RefGif, RefJpeg, RefPng>>, <<RefPng, RefJpg, RefJpg>>}

BotPages == LostPages("Lion") \cup GoodPages("Lion", {<<"p1", "p2">>}, BotImageLists)

BotHitPages ==
    {Page("exists", TRUE, "Lion", <<"p1">>, <<>>), Page("none", FALSE, "Lion", <<"p1">>, <<>>)}
        \cup GoodPages("Lion", {<<"p1">>}, {<<RefJpg>>, <<RefGif>>})

\* The page the library yields for a search hit carries the hit's title.
PagesOfHits(hits, pages) == [i \in 1..Len(hits) |-> [pages[i] EXCEPT !.title = hits[i]]]

BotSearches ==
    {[search |-> [fail |-> TRUE, hits |-> <<>>], pages |-> <<>>]}
        \cup UNION {
            {[search |-> [fail |-> FALSE, hits |-> h], pages |-> PagesOfHits(h, p)] :
                p \in [1..Len(h) -> BotHitPages]}
            : h \in {<<>>, <<"Lion">>, <<"Lion", "Cat">>}}

\* A handler starts on a new update of user s.
Begin(s, ev) ==
    /\ pc[s] = "idle"
    /\ event' = [event EXCEPT ![s] = ev]
    /\ running' = s

\* A handler that makes no resolver call.
NoLookup(s) ==
    /\ branch' = [branch EXCEPT ![s] = "none"]
    /\ result' = [result EXCEPT ![s] = <<>>]
    /\ idx' = [idx EXCEPT ![s] = 0]
    /\ calls' = [calls EXCEPT ![s] = <<>>]
    /\ raised' = [raised EXCEPT ![s] = FALSE]

\* start, lines 68-87: the menu is sent and awaited.
Start(s) ==
    /\ Begin(s, [kind |-> "start", data |-> "none", text |-> <<>>])
    /\ NoLookup(s)
    /\ sent' = [sent EXCEPT ![s] = <<TextMsg("menu", <<>>)>>]
    /\ pc' = [pc EXCEPT ![s] = "last_await"]
    /\ UNCHANGED <<search_type, pressed, funvars>>

\* button, lines 96-97: up to the await of query.answer().
Button(s) ==
    \E data \in CallbackData :
        /\ Begin(s, [kind |-> "button", data |-> data, text |-> <<>>])
        /\ NoLookup(s)
        /\ sent' = [sent EXCEPT ![s] = <<>>]
        /\ pc' = [pc EXCEPT ![s] = "button_answer"]
        /\ pressed' = [pressed EXCEPT ![s] = IF data \in KnownData THEN data ELSE @]
        /\ UNCHANGED <<search_type, funvars>>

\* button, lines 100-108: from the answer to the await of
\* edit_message_text, or to the end when the data is unknown.
ButtonAnswered(s) ==
    /\ pc[s] = "button_answer"
    /\ LET data == event[s].data
       IN /\ search_type' = SetSearchType(search_type, s,
                                          ButtonMode(data, GetSearchType(search_type, s)))
          /\ IF data \in KnownData
             THEN /\ sent' = [sent EXCEPT ![s] = Append(@, TextMsg("prompt", <<data>>))]
                  /\ pc' = [pc EXCEPT ![s] = "last_await"]
             ELSE /\ sent' = sent
                  /\ pc' = [pc EXCEPT ![s] = "idle"]
    /\ running' = s
    /\ UNCHANGED <<event, branch, result, idx, calls, raised, pressed, funvars>>

\* handle_message, lines 119-129: the animal and breed branch, up to its
\* first await.
MessageAnimal(s, text) ==
    \E page \in BotPages :
        LET user_input == Normalize(text)
            info == get_animal_info(user_input, page).value
        IN /\ MessageBranch(GetSearchType(search_type, s)) = "animal"
           /\ Begin(s, [kind |-> "message", data |-> "none", text |-> text])
           /\ branch' = [branch EXCEPT ![s] = "animal"]
           /\ calls' = [calls EXCEPT ![s] = <<"get_animal_info">>]
           /\ raised' = [raised EXCEPT ![s] = FALSE]
           /\ result' = [result EXCEPT ![s] = IF info # None THEN <<info>> ELSE <<>>]
           /\ IF info # None
              THEN /\ sent' = [sent EXCEPT ![s] = <<Head(AnimalReplies(info))>>]
                   /\ idx' = [idx EXCEPT ![s] = 1]
                   /\ pc' = [pc EXCEPT ![s] =
                                IF Len(AnimalReplies(info)) > 1 THEN "animal_await" ELSE "last_await"]
              ELSE /\ sent' = [sent EXCEPT ![s] = <<AnimalApology>>]
                   /\ idx' = [idx EXCEPT ![s] = 0]
                   /\ pc' = [pc EXCEPT ![s] = "last_await"]

\* handle_message, lines 131-143: the habitat branch, up to its first
\* await; an exception of get_habitat_info ends the handler.
MessageHabitat(s, text) ==
    \E world \in BotSearches :
        LET user_input == Normalize(text)
            r == get_habitat_info(user_input, world.search, world.pages)
            replies == IF r.value # <<>>
                       THEN HabitatReplies(user_input, r.value)
                       ELSE <<HabitatApology(user_input)>>
        IN /\ MessageBranch(GetSearchType(search_type, s)) = "habitat"
           /\ Begin(s, [kind |-> "message", data |-> "none", text |-> text])
           /\ branch' = [branch EXCEPT ![s] = "habitat"]
           /\ calls' = [calls EXCEPT ![s] = <<"get_habitat_info">>]
           /\ IF r.raised
              THEN /\ raised' = [raised EXCEPT ![s] = TRUE]
                   /\ result' = [result EXCEPT ![s] = <<>>]
                   /\ sent' = [sent EXCEPT ![s] = <<>>]
                   /\ idx' = [idx EXCEPT ![s] = 0]
                   /\ pc' = [pc EXCEPT ![s] = "idle"]
              ELSE /\ raised' = [raised EXCEPT ![s] = FALSE]
                   /\ result' = [result EXCEPT ![s] = r.value]
                   /\ sent' = [sent EXCEPT ![s] = <<Head(replies)>>]
                   /\ idx' = [idx EXCEPT ![s] = 1]
                   /\ pc' = [pc EXCEPT ![s] =
                                IF Len(replies) > 1 THEN "habitat_await" ELSE "last_await"]

\* handle_message when neither condition holds: it ends at once.
MessageIgnored(s, text) ==
    /\ MessageBranch(GetSearchType(search_type, s)) = "none"
    /\ Begin(s, [kind |-> "message", data |-> "none", text |-> text])
    /\ NoLookup(s)
    /\ sent' = [sent EXCEPT ![s] = <<>>]
    /\ pc' = [pc EXCEPT ![s] = "idle"]

\* handle_message, lines 110-143, up to its first await.
HandleMessage(s) ==
    \E text \in Texts :
        /\ \/ MessageAnimal(s, text)
           \/ MessageHabitat(s, text)
           \/ MessageIgnored(s, text)
        /\ search_type' = AfterMessage(search_type, s)
        /\ UNCHANGED <<pressed, funvars>>

\* handle_message, lines 125-126: from the await of reply_media_group to
\* the await of reply_text.
AnimalResumed(s) ==
    /\ pc[s] = "animal_await"
    /\ LET replies == AnimalReplies(result[s][1])
       IN /\ sent' = [sent EXCEPT ![s] = Append(@, replies[idx[s] + 1])]
          /\ idx' = [idx EXCEPT ![s] = @ + 1]
          /\ pc' = [pc EXCEPT ![s] =
                       IF idx[s] + 1 < Len(replies) THEN "animal_await" ELSE "last_await"]
    /\ running' = s
    /\ UNCHANGED <<search_type, event, branch, result, calls, raised, pressed, funvars>>

\* handle_message, lines 135-140: from one await of the loop to the next,
\* or to the await of reply_text.
HabitatResumed(s) ==
    /\ pc[s] = "habitat_await"
    /\ LET replies == HabitatReplies(Normalize(event[s].text), result[s])
       IN /\ sent' = [sent EXCEPT ![s] = Append(@, replies[idx[s] + 1])]
          /\ idx' = [idx EXCEPT ![s] = @ + 1]
          /\ pc' = [pc EXCEPT ![s] =
                       IF idx[s] + 1 < Len(replies) THEN "habitat_await" ELSE "last_await"]
    /\ running' = s
    /\ UNCHANGED <<search_type, event, branch, result, calls, raised, pressed, funvars>>

\* The last await of a handler returns and the handler ends.
HandlerEnds(s) ==
    /\ pc[s] = "last_await"
    /\ pc' = [pc EXCEPT ![s] = "idle"]
    /\ running' = s
    /\ UNCHANGED <<search_type, event, branch, result, idx, sent, calls, raised,
                   pressed, funvars>>

Init == BotInit /\ FunIdle

Next ==
    \E s \in Sessions :
        \/ Start(s)
        \/ Button(s)
        \/ ButtonAnswered(s)
        \/ HandleMessage(s)
        \/ AnimalResumed(s)
        \/ HabitatResumed(s)
        \/ HandlerEnds(s)

Spec == Init /\ [][Next]_vars

\* ------------------------------------------ the resolvers on their own
AnimalPages ==
    LostPages("Lion")
        \cup UNION {GoodPages(t, Summaries, SeqUpTo(ImageRefs, MaxImages)) : t \in Titles}

HitPages ==
    LostPages("Lion")
        \cup GoodPages("Lion", {<<"p1", "p2">>}, SeqUpTo({RefJpg, RefGif}, MaxHabitatImages))

HitLists == SeqUpTo(Titles, Min(MaxHits, SearchResults))

InitResolver ==
    /\ BotInit
    /\ \/ \E p \in AnimalPages : fin = [kind |-> "animal", page |-> p]
       \/ fin = [kind |-> "habitat", search |-> [fail |-> TRUE, hits |-> <<>>],
                 pages |-> <<>>]
       \/ \E h \in HitLists :
            \E p \in [1..Len(h) -> HitPages] :
                fin = [kind |-> "habitat", search |-> [fail |-> FALSE, hits |-> h],
                       pages |-> PagesOfHits(h, p)]
    /\ fout = Return(None)
    /\ fpc = "call"

CallAnimal ==
    /\ fpc = "call"
    /\ fin.kind = "animal"
    /\ fout' = get_animal_info(fin.page.title, fin.page)
    /\ fpc' = "done"
    /\ UNCHANGED <<fin, botvars>>

CallHabitat ==
    /\ fpc = "call"
    /\ fin.kind = "habitat"
    /\ fout' = get_habitat_info(<<>>, fin.search, fin.pages)
    /\ fpc' = "done"
    /\ UNCHANGED <<fin, botvars>>

NextResolver == CallAnimal \/ CallHabitat

SpecResolver == InitResolver /\ [][NextResolver]_vars

\* --------------------------------------- the normalisation on its own
InitNormalize ==
    /\ BotInit
    /\ fin \in {[kind |-> "text", text |-> t] : t \in SeqUpTo(InputChars, MaxLen)}
    /\ fout = Return(<<>>)
    /\ fpc = "call"

CallNormalize ==
    /\ fpc = "call"
    /\ fin.kind = "text"
    /\ fout' = Return(Normalize(fin.text))
    /\ fpc' = "done"
    /\ UNCHANGED <<fin, botvars>>

NextNormalize == CallNormalize

SpecNormalize == InitNormalize /\ [][NextNormalize]_vars

\* ============================================================== claims
\* The k-th smallest element of a set of numbers.
KthOf(S, k) == CHOOSE i \in S : Cardinality({j \in S : j <= i}) = k

\* The hits of a habitat input whose page exists and whose lookup raised
\* nothing.
GoodHits(input) ==
    {i \in 1..Len(input.search.hits) :
        input.pages[i].exists /\ input.pages[i].fail = "none"}

\* images is what the claim C4 says of a page whose image references are
\* pageImages.
ImagesAsClaimed(images, pageImages) ==
    LET keptAt == {i \in 1..Min(2, Len(pageImages)) :
                      \/ EndsWith(pageImages[i], <<"j", "p", "g">>)
                      \/ EndsWith(pageImages[i], <<"j", "p", "e", "g">>)
                      \/ EndsWith(pageImages[i], <<"p", "n", "g">>)}
    IN /\ Len(images) <= 2
       /\ Len(images) = Cardinality(keptAt)
       /\ \A k \in 1..Len(images) :
            /\ images[k] = Https \o pageImages[KthOf(keptAt, k)]
            /\ StartsWith(images[k], <<"h", "t", "t", "p", "s", ":">>)
            /\ HasAllowedExtension(images[k])

\* C4: the images of every result of the resolver (the result of
\* get_animal_info, every entry of the list of get_habitat_info) are the
\* allow-listed ones among the first two image references of the page, in
\* their order, each prefixed with "https:"; there are at most two.
C4_ImagesOfResult ==
    fpc = "done" =>
        /\ (fin.kind = "animal" /\ fout.value # None) =>
                ImagesAsClaimed(fout.value.images, fin.page.images)
        /\ (fin.kind = "habitat" /\ ~fout.raised) =>
                \A k \in 1..Len(fout.value) :
                    k <= Cardinality(GoodHits(fin)) =>
                        ImagesAsClaimed(fout.value[k].images,
                                        fin.pages[KthOf(GoodHits(fin), k)].images)

\* A page of three images whose first is not allow-listed and whose second
\* and third are: the result has the second alone.
C4_Witness ==
    /\ fpc = "done"
    /\ fin.kind = "animal"
    /\ fin.page.images = <<RefGif, RefPng, RefJpg>>
    /\ fout.value # None
    /\ fout.value.images = <<Https \o RefPng>>

\* C7: for a list of search hits, get_habitat_info returns one entry for
\* each hit whose page exists and whose lookup raised nothing, in the order
\* of the hits, duplicates kept; the other hits are skipped and do not end
\* the loop; the list is no longer than the list of hits.
C7_HabitatList ==
    (fpc = "done" /\ fin.kind = "habitat" /\ ~fin.search.fail) =>
        /\ ~fout.raised
        /\ Len(fout.value) = Cardinality(GoodHits(fin))
        /\ Len(fout.value) <= Len(fin.search.hits)
        /\ \A k \in 1..Len(fout.value) :
            LET i == KthOf(GoodHits(fin), k)
            IN /\ fout.value[k].title = fin.search.hits[i]
               /\ fout.value[k] = HitLookup(fin.search.hits[i], fin.pages[i]).value

\* Two hits of the same title: the lookup of the first raises, the second
\* resolves and is the only entry returned.
C7_Witness ==
    /\ fpc = "done"
    /\ fin.kind = "habitat"
    /\ ~fin.search.fail
    /\ fin.search.hits = <<"Cat", "Cat">>
    /\ fin.pages[1].fail = "summary"
    /\ fin.pages[2].fail = "none" /\ fin.pages[2].exists
    /\ Len(fout.value) = 1

\* C8: normalising a normalised query changes nothing.
C8_Idempotent ==
    (fpc = "done" /\ fin.kind = "text") => Normalize(fout.value) = fout.value

\* The mode a menu button stands for.
ModeOfButton(data) ==
    CASE data = "search_animal" -> "animal"
      [] data = "search_breed" -> "breed"
      [] data = "search_habitat" -> "habitat"
      [] OTHER -> "unset"

\* The handler of a recognised press of user s is still before the
\* assignment of lines 100-108.
PressPending(s) ==
    pc[s] = "button_answer" /\ event[s].data \in KnownData

\* C1: once button has handled a press of one of the three menu buttons,
\* the user's search type is the mode of that button, whatever it was
\* before; after any presses it is the mode of the last recognised one.
C1_ButtonSetsMode ==
    \A s \in Sessions :
        /\ (event[s].kind = "button" /\ event[s].data \in KnownData /\ ~PressPending(s)) =>
                search_type[s] = ModeOfButton(event[s].data)
        /\ ~PressPending(s) => search_type[s] = ModeOfButton(pressed[s])

\* A press of the breed button has been handled, and the mode is breed.
C1_Witness ==
    \E s \in Sessions :
        /\ event[s].kind = "button"
        /\ event[s].data = "search_breed"
        /\ pc[s] = "last_await"
        /\ search_type[s] = "breed"

\* C2: a free-text message handled while the user's search type is unset
\* makes no resolver call and sends nothing.
C2_NoModeNoAction ==
    \A s \in Sessions :
        (event[s].kind = "message" /\ search_type[s] = "unset") =>
            /\ calls[s] = <<>>
            /\ sent[s] = <<>>
            /\ pc[s] = "idle"

\* A message has been handled for a user who never pressed a button.
C2_Witness ==
    \E s \in Sessions :
        /\ event[s].kind = "message"
        /\ pressed[s] = "none"
        /\ search_type[s] = "unset"
        /\ pc[s] = "idle"

\* C3: no failure of a lookup leaves the resolver: no handler ends by an
\* exception of get_animal_info or get_habitat_info.
C3_LookupFailuresCaught ==
    \A s \in Sessions : ~raised[s]

IsText(m) == m.kind = "text"
IsPhotos(m) == m.kind = "photos"

C6_ModeClosed ==
    \A s \in Sessions : search_type[s] \in {"unset", "animal", "breed", "habitat"}

\* A callback of unknown data has been handled after a habitat press.
C6_Witness ==
    \E s \in Sessions :
        /\ event[s].kind = "button"
        /\ event[s].data = "search_other"
        /\ pc[s] = "idle"
        /\ search_type[s] = "habitat"

\* C9: a user's search type changes only in the handler of a recognised
\* button press of that user; messages, /start and unknown callbacks leave
\* it as it is, so a message does not clear the mode it used.
C9_OnlyButtonChangesMode ==
    [][\A s \in Sessions :
          search_type'[s] # search_type[s] =>
              /\ pc[s] = "button_answer"
              /\ event[s].kind = "button"
              /\ event[s].data \in KnownData]_vars

\* A message has been answered in mode animal and the mode is still animal.
C9_Witness ==
    \E s \in Sessions :
        /\ event[s].kind = "message"
        /\ pc[s] = "idle"
        /\ sent[s] # <<>>
        /\ search_type[s] = "animal"

\* The branch of handle_message that the mode of a button leads to.
BranchOfButton(data) ==
    CASE data = "search_animal" -> "animal"
      [] data = "search_breed" -> "animal"
      [] data = "search_habitat" -> "habitat"
      [] OTHER -> "none"

\* C10: however the handlers of different users interleave at their awaits,
\* a step of one user's handler leaves every other user's search type as
\* it is, and the branch taken for a user's message is the one of that
\* user's own last recognised button press.
C10_SessionsIsolated ==
    [][/\ \A b \in Sessions : b # running' => search_type'[b] = search_type[b]
       /\ \A b \in Sessions :
            event'[b].kind = "message" => branch'[b] = BranchOfButton(pressed'[b])]_vars

\* Two handlers are suspended at the same time, one in the animal branch
\* and one in the habitat branch.
C10_Witness ==
    /\ pc["u1"] = "animal_await"
    /\ pc["u2"] = "habitat_await"
    /\ search_type["u1"] = "breed"
    /\ search_type["u2"] = "habitat"

====
